---- MODULE Spec2Model ----
(***************************************************************************)
(* A model of the flood monitor (src/main.py): the USGS request builders,  *)
(* the payload parser, the cached get_flood_data, one render pass of the   *)
(* Streamlit script, and the threshold rules of the map and of the risk    *)
(* table.                                                                  *)
(*                                                                         *)
(* Numbers that the program holds as floats are held here in hundredths    *)
(* (8000.01 is 800001).  JSON strings that the program converts with       *)
(* float() are sequences of one-character strings, so that the conversion  *)
(* is computed and not assumed.                                            *)
(***************************************************************************)
EXTENDS Integers, Sequences, FiniteSets, TLC

VARIABLES
    \* ---- the render pass and the cache (Spec)
    cache,          \* st.cache_data store of get_flood_data: a dict key -> entry
    now,            \* wall clock, seconds
    data_type,      \* sidebar selectbox "Select Data Type"
    time_period,    \* sidebar selectbox "Time Period"
    button,         \* value of the "Refresh Data" button in the last pass
    request,        \* the last request built by a fetch_* method
    df,             \* the DataFrame get_flood_data returned (rows in order)
    outcome,        \* how the last pass ended
    messages,       \* st.error / st.warning boxes shown by the last pass
    latest_value,   \* line 180: mean of the per-site last values
    latest_data,    \* line 189: per-site last row
    flood_risks,    \* lines 305-338
    \* ---- history of the calls of get_flood_data (observers, not program state)
    called,         \* the key of the last get_flood_data call
    fetched,        \* the last call issued an HTTP request
    lastFetch,      \* key -> the last HTTP fetch for it, if less than the ttl
                    \* ago and no clear since
    clearedSince,   \* the keys not called since the cache was last cleared ->
                    \* whether that clear evicted an entry of the key
    afterClear,     \* the last call was the first for its key after a clear:
                    \* "no", or what the clear found, "evicted" or "empty"
    \* ---- the pure functions, applied to drawn inputs
    pc,             \* position of the pipeline under test
    payload,        \* a decoded JSON body
    parsed,         \* result of parse_usgs_data on it
    site_codes,     \* arguments of a fetch_* method
    states,
    period,
    fetcher,        \* which fetch_* method
    value,          \* a latest value handed to the threshold rules
    risk_level,     \* lines 312-331
    color           \* lines 200-203

vars == << cache, now, data_type, time_period, button, request, df, outcome,
           messages, latest_value, latest_data, flood_risks, called,
           fetched, lastFetch, clearedSince, afterClear, pc, payload, parsed, site_codes,
           states, period, fetcher, value, risk_level, color >>

renderVars == << cache, now, time_period, button, outcome, messages, called,
                 fetched, lastFetch, clearedSince, afterClear >>
consumeVars == << df, latest_value, latest_data, flood_risks >>
parseVars == << payload, parsed >>
paramVars == << site_codes, states, period, fetcher >>
classifyVars == << value, risk_level, color >>

-----------------------------------------------------------------------------
(* Numbers and strings *)

\* one unit of the program's floats, in the model's hundredths
Scale == 10 * 10

\* Python's None where a list is expected, held as a value no list of codes equals
None == << "None" >>

\* a key the JSON object does not have: of a string, and of a digit string
NoKey == "<missing>"
NoKeySeq == << "<missing>" >>

DigitVal(c) ==
    CASE c = "0" -> 0 [] c = "1" -> 1 [] c = "2" -> 2 [] c = "3" -> 3
      [] c = "4" -> 4 [] c = "5" -> 5 [] c = "6" -> 6 [] c = "7" -> 7
      [] c = "8" -> 8 [] c = "9" -> 9 [] OTHER -> 0

IsDigit(c) == c \in {"0", "1", "2", "3", "4", "5", "6", "7", "8", "9"}

RECURSIVE LStrip(_)
LStrip(s) == IF s # << >> /\ Head(s) = " " THEN LStrip(Tail(s)) ELSE s

RECURSIVE RStrip(_)
RStrip(s) ==
    IF s # << >> /\ s[Len(s)] = " " THEN RStrip(SubSeq(s, 1, Len(s) - 1)) ELSE s

\* value of a digit string, most significant digit first
RECURSIVE DigitsVal(_)
DigitsVal(s) ==
    IF s = << >> THEN 0
    ELSE DigitsVal(SubSeq(s, 1, Len(s) - 1)) * 10 + DigitVal(s[Len(s)])

AllDigits(s) == \A i \in 1..Len(s) : IsDigit(s[i])

\* the hundredths a fraction digit string stands for (two digits are exact)
FracVal(s) ==
    IF Len(s) = 0 THEN 0
    ELSE IF Len(s) = 1 THEN DigitVal(s[1]) * 10
    ELSE DigitVal(s[1]) * 10 + DigitVal(s[2])

\* Python's float(str): surrounding blanks stripped, an optional sign, digits
\* with an optional point; anything else raises ValueError.
ParseFloat(raw) ==
    LET s == RStrip(LStrip(raw))
        signed == s # << >> /\ Head(s) \in {"-", "+"}
        sign == IF signed /\ Head(s) = "-" THEN -1 ELSE 1
        body == IF signed THEN Tail(s) ELSE s
        dots == {i \in 1..Len(body) : body[i] = "."}
        dot == IF dots = {} THEN Len(body) + 1
               ELSE CHOOSE i \in dots : \A j \in dots : i <= j
        ip == SubSeq(body, 1, dot - 1)
        fp == SubSeq(body, dot + 1, Len(body))
        good == AllDigits(ip) /\ AllDigits(fp) /\ Len(ip) + Len(fp) > 0
    IN  IF good
        THEN [ok |-> TRUE, val |-> sign * (DigitsVal(ip) * Scale + FracVal(fp))]
        ELSE [ok |-> FALSE, val |-> 0]

\* pd.to_datetime of an ISO-8601 string with a UTC offset: the instant.  The
\* string is held as its fields: local clock time, offset, both in hours.
ToDatetime(dateTime) ==
    IF dateTime.wellformed
    THEN [ok |-> TRUE, val |-> dateTime.local - dateTime.utcoff]
    ELSE [ok |-> FALSE, val |-> 0]

\* ','.join(list of str)
RECURSIVE Join(_)
Join(codes) ==
    IF codes = << >> THEN ""
    ELSE IF Len(codes) = 1 THEN codes[1]
    ELSE codes[1] \o "," \o Join(Tail(codes))

\* Python truthiness of an optional list
Truthy(list) == list # None /\ list # << >>

-----------------------------------------------------------------------------
(* The request builders, lines 36-51 and 62-76 *)

usgs_base_url == "https://waterservices.usgs.gov/nwis/iv/"

DefaultSites == "01646500,02231000,07374000,08062500"

Periods == {"P1D", "P3D", "P7D", "P30D"}

DataTypes == {"Streamflow", "Gage Height"}

\* lines 38-51
streamflow_params(p_site_codes, p_states, p_period) ==
    LET params == ("format" :> "json") @@ ("parameterCd" :> "00060")
                      @@ ("period" :> p_period) @@ ("siteStatus" :> "active")
    IN  IF Truthy(p_site_codes) THEN params @@ ("sites" :> Join(p_site_codes))
        ELSE IF Truthy(p_states) THEN params @@ ("stateCd" :> Join(p_states))
        ELSE params @@ ("sites" :> DefaultSites)

\* gage_height_params with the state codes tested before the site codes
gage_height_params_states_first(p_site_codes, p_states, p_period) ==
    LET params == ("format" :> "json") @@ ("parameterCd" :> "00065")
                      @@ ("period" :> p_period) @@ ("siteStatus" :> "active")
    IN  IF Truthy(p_states) THEN params @@ ("stateCd" :> Join(p_states))
        ELSE IF Truthy(p_site_codes) THEN params @@ ("sites" :> Join(p_site_codes))
        ELSE params @@ ("sites" :> DefaultSites)

\* lines 64-76
gage_height_params(p_site_codes, p_states, p_period) ==
    LET params == ("format" :> "json") @@ ("parameterCd" :> "00065")
                      @@ ("period" :> p_period) @@ ("siteStatus" :> "active")
    IN  IF Truthy(p_site_codes) THEN params @@ ("sites" :> Join(p_site_codes))
        ELSE IF Truthy(p_states) THEN params @@ ("stateCd" :> Join(p_states))
        ELSE params @@ ("sites" :> DefaultSites)

BuildRequest(which, p_site_codes, p_states, p_period) ==
    [url |-> usgs_base_url,
     params |-> IF which = "fetch_streamflow_data"
                THEN streamflow_params(p_site_codes, p_states, p_period)
                ELSE gage_height_params(p_site_codes, p_states, p_period),
     timeout |-> 30]

NoRequest == [url |-> "", params |-> << >>, timeout |-> 0]

-----------------------------------------------------------------------------
(* The threshold rules *)

\* lines 200-203: the colour of a site's map marker
MarkerColor(p_data_type, v) ==
    IF p_data_type = "Streamflow"
    THEN IF v > 10000 * Scale THEN "red"
         ELSE IF v > 5000 * Scale THEN "orange" ELSE "green"
    ELSE IF v > 20 * Scale THEN "red"
         ELSE IF v > 10 * Scale THEN "orange" ELSE "green"

\* RiskLevel with the thresholds of the map markers
RiskLevelByMarkerThresholds(p_data_type, v) ==
    IF p_data_type = "Streamflow"
    THEN IF v > 10000 * Scale THEN "HIGH"
         ELSE IF v > 5000 * Scale THEN "MODERATE" ELSE "LOW"
    ELSE IF v > 20 * Scale THEN "HIGH"
         ELSE IF v > 10 * Scale THEN "MODERATE" ELSE "LOW"

\* RiskLevel with thresholds that include the bound
RiskLevelInclusive(p_data_type, v) ==
    IF p_data_type = "Streamflow"
    THEN IF v >= 15000 * Scale THEN "HIGH"
         ELSE IF v >= 8000 * Scale THEN "MODERATE" ELSE "LOW"
    ELSE IF v >= 25 * Scale THEN "HIGH"
         ELSE IF v >= 15 * Scale THEN "MODERATE" ELSE "LOW"

\* lines 312-331: the risk level of a site
RiskLevel(p_data_type, v) ==
    IF p_data_type = "Streamflow"
    THEN IF v > 15000 * Scale THEN "HIGH"
         ELSE IF v > 8000 * Scale THEN "MODERATE" ELSE "LOW"
    ELSE IF v > 25 * Scale THEN "HIGH"
         ELSE IF v > 15 * Scale THEN "MODERATE" ELSE "LOW"

-----------------------------------------------------------------------------
(* parse_usgs_data, lines 87-117 *)

\* the raw string the filter of line 105 compares with: '-999999'
SentinelRaw == << "-", "9", "9", "9", "9", "9", "9" >>

Raise(exc) == [status |-> exc, records |-> << >>]

\* lines 104-115: the points of one series, appended to records
RECURSIVE ParsePoints(_, _, _)
ParsePoints(meta, points, records) ==
    IF points = << >> THEN [status |-> "ok", records |-> records]
    ELSE LET value_data == Head(points) IN
         IF value_data.value = NoKeySeq THEN Raise("KeyError")
         ELSE IF value_data.value # SentinelRaw
         THEN LET dt == ToDatetime(value_data.dateTime)
                  v == ParseFloat(value_data.value)
              IN  IF ~dt.ok \/ ~v.ok THEN Raise("ValueError")
                  ELSE ParsePoints(meta, Tail(points),
                           Append(records,
                               [site_code |-> meta.site_code,
                                site_name |-> meta.site_name,
                                latitude |-> meta.latitude,
                                longitude |-> meta.longitude,
                                parameter |-> meta.parameter,
                                unit |-> meta.unit,
                                datetime |-> dt.val,
                                value |-> v.val]))
         ELSE ParsePoints(meta, Tail(points), records)

\* lines 93-115: the series in order
RECURSIVE ParseSeries(_, _)
ParseSeries(timeSeries, records) ==
    IF timeSeries = << >> THEN [status |-> "ok", records |-> records]
    ELSE LET series == Head(timeSeries)
             latitude == ParseFloat(series.latitude)
             longitude == ParseFloat(series.longitude)
         IN  IF series.siteName = NoKey THEN Raise("KeyError")
             ELSE IF ~latitude.ok \/ ~longitude.ok THEN Raise("ValueError")
             ELSE LET meta == [site_code |-> series.siteCode,
                               site_name |-> series.siteName,
                               latitude |-> latitude.val,
                               longitude |-> longitude.val,
                               parameter |-> series.variableName,
                               unit |-> IF series.unit = NoKey THEN "N/A"
                                        ELSE series.unit]
                      done == ParsePoints(meta, series.values, records)
                  IN  IF done.status # "ok" THEN done
                      ELSE ParseSeries(Tail(timeSeries), done.records)

\* parse_usgs_data reading the first series only
parse_usgs_data_first_series(data) ==
    IF ~data.hasTimeSeries \/ data.timeSeries = << >>
    THEN [status |-> "ok", records |-> << >>]
    ELSE ParseSeries(<< Head(data.timeSeries) >>, << >>)

\* lines 87-117.  data.hasTimeSeries is FALSE when 'value' or 'timeSeries' is
\* missing; the DataFrame is the sequence of its rows.
parse_usgs_data(data) ==
    IF ~data.hasTimeSeries \/ data.timeSeries = << >>
    THEN [status |-> "ok", records |-> << >>]
    ELSE ParseSeries(data.timeSeries, << >>)

-----------------------------------------------------------------------------
(* The code that reads the DataFrame, lines 167-341 *)

\* df['site_code'].unique(): the codes in order of first appearance
RECURSIVE Unique(_, _)
Unique(rows, seen) ==
    IF rows = << >> THEN seen
    ELSE IF \E i \in 1..Len(seen) : seen[i] = Head(rows).site_code
    THEN Unique(Tail(rows), seen)
    ELSE Unique(Tail(rows), Append(seen, Head(rows).site_code))

SiteCodes(rows) == {rows[i].site_code : i \in 1..Len(rows)}

\* df.groupby('site_code').last(): per site, the row met last in row order
GroupbyLast(rows) ==
    [s \in SiteCodes(rows) |->
        rows[CHOOSE i \in 1..Len(rows) :
                /\ rows[i].site_code = s
                /\ \A j \in 1..Len(rows) : rows[j].site_code = s => j <= i]]

RECURSIVE SumOver(_, _)
SumOver(f, S) ==
    IF S = {} THEN 0
    ELSE LET x == CHOOSE y \in S : TRUE IN f[x] + SumOver(f, S \ {x})

\* line 180: df.groupby('site_code')['value'].last().mean(), to the hundredth
\* below
LatestValueMean(rows) ==
    LET last == GroupbyLast(rows)
        per_site == [s \in DOMAIN last |-> last[s].value]
    IN  SumOver(per_site, DOMAIN per_site) \div Cardinality(DOMAIN per_site)

\* line 189, with the marker colour of lines 199-203
LatestData(rows, p_data_type) ==
    LET last == GroupbyLast(rows)
    IN  [s \in DOMAIN last |->
            [row |-> last[s], color |-> MarkerColor(p_data_type, last[s].value)]]

\* df[df['site_code'] == site_code]
RECURSIVE SiteData(_, _)
SiteData(rows, s) ==
    IF rows = << >> THEN << >>
    ELSE IF Head(rows).site_code = s
    THEN << Head(rows) >> \o SiteData(Tail(rows), s)
    ELSE SiteData(Tail(rows), s)

\* sort_values('datetime') with the default sort, which is not stable: every
\* order of the rows that is ascending in datetime
SortValues(rows) ==
    {[i \in 1..Len(rows) |-> rows[p[i]]] :
        p \in {q \in Permutations(1..Len(rows)) :
                  \A i, j \in 1..Len(rows) :
                      i < j => rows[q[i]].datetime <= rows[q[j]].datetime}}

\* lines 307-338 for one site, given the sorted site_data
RiskRow(site_data, p_data_type) ==
    LET latest == site_data[Len(site_data)].value
    IN  [site_code |-> site_data[1].site_code,
         site_name |-> site_data[1].site_name,
         latest_value |-> latest,
         risk_level |-> RiskLevel(p_data_type, latest),
         last_updated |-> site_data[Len(site_data)].datetime]

\* lines 305-338: every table the loop can build
FloodRisks(rows, p_data_type) ==
    LET sites == Unique(rows, << >>)
        sorted == [i \in 1..Len(sites) |-> SortValues(SiteData(rows, sites[i]))]
        picks == {f \in [1..Len(sites) -> UNION {sorted[i] : i \in 1..Len(sites)}] :
                     \A i \in 1..Len(sites) : f[i] \in sorted[i]}
    IN  {[i \in 1..Len(sites) |-> RiskRow(f[i], p_data_type)] : f \in picks}

-----------------------------------------------------------------------------
(* Values of the variables a specification does not use *)

Keys == DataTypes \X Periods

\* the empty dict
Empty == [k \in {} |-> 0]

NoCall == << "", "" >>

NoParse == [status |-> "none", records |-> << >>]

EmptyPayload == [hasTimeSeries |-> TRUE, timeSeries |-> << >>]

IdleRender ==
    /\ cache = Empty
    /\ now = 0
    /\ time_period = "Last 24 Hours"
    /\ button = FALSE
    /\ outcome = "none"
    /\ messages = {}
    /\ called = NoCall
    /\ fetched = FALSE
    /\ lastFetch = Empty
    /\ clearedSince = Empty
    /\ afterClear = "no"

IdleConsume ==
    /\ df = << >>
    /\ latest_value = 0
    /\ latest_data = << >>
    /\ flood_risks = << >>

IdleParse == payload = EmptyPayload /\ parsed = NoParse

IdleParams ==
    /\ site_codes = None
    /\ states = None
    /\ period = "P1D"
    /\ fetcher = "fetch_streamflow_data"

IdleClassify == value = 0 /\ risk_level = "none" /\ color = "none"

-----------------------------------------------------------------------------
(* The threshold rules applied to drawn values: SpecClassify *)

\* how far around each threshold the drawn values reach, in hundredths
Delta == 2

Thresholds == {10, 15, 20, 25, 5000, 8000, 10000, 15000}

LatestValues ==
    {t * Scale + d : t \in Thresholds, d \in (0 - Delta)..Delta}
        \cup {0, 17 * Scale, 22 * Scale, 12000 * Scale, 20000 * Scale}

InitClassify ==
    /\ IdleRender /\ IdleConsume /\ IdleParse /\ IdleParams
    /\ request = NoRequest
    /\ pc = "classify"
    /\ data_type \in DataTypes
    /\ value \in LatestValues
    /\ risk_level = "none"
    /\ color = "none"

\* lines 199-203 and 312-331 for one site's latest value
Classify ==
    /\ pc = "classify"
    /\ color' = MarkerColor(data_type, value)
    /\ risk_level' = RiskLevel(data_type, value)
    /\ pc' = "classified"
    /\ UNCHANGED << renderVars, consumeVars, parseVars, paramVars, request,
                    data_type, value >>

NextClassify == Classify

SpecClassify == InitClassify /\ [][NextClassify]_vars

-----------------------------------------------------------------------------
(* The request builders applied to drawn arguments: SpecParams *)

\* longest list of site codes or of state codes drawn
MaxCodes == 2

Fetchers == {"fetch_streamflow_data", "fetch_gage_height_data"}

OptionalLists(pool) == {None} \cup UNION {[1..n -> pool] : n \in 0..MaxCodes}

InitParams ==
    /\ IdleRender /\ IdleConsume /\ IdleParse /\ IdleClassify
    /\ data_type = "Streamflow"
    /\ request = NoRequest
    /\ pc = "build"
    /\ site_codes \in OptionalLists({"01646500", "02231000"})
    /\ states \in OptionalLists({"VA", "LA"})
    /\ period \in Periods
    /\ fetcher \in Fetchers

\* lines 38-54 and 64-79: the request a fetch_* method sends
Build ==
    /\ pc = "build"
    /\ request' = BuildRequest(fetcher, site_codes, states, period)
    /\ pc' = "built"
    /\ UNCHANGED << renderVars, consumeVars, parseVars, paramVars,
                    classifyVars, data_type >>

NextParams == Build

SpecParams == InitParams /\ [][NextParams]_vars

-----------------------------------------------------------------------------
(* The part of a render pass that reads the DataFrame, lines 167-341 *)

NoDataWarning == "warning: No data available for the selected criteria"

Consume(rows, p_data_type, shown) ==
    /\ df' = rows
    /\ IF rows = << >>
       THEN /\ messages' = shown \cup {NoDataWarning}
            /\ outcome' = "stopped"
            /\ latest_value' = 0
            /\ latest_data' = << >>
            /\ flood_risks' = << >>
       ELSE /\ messages' = shown
            /\ outcome' = "rendered"
            /\ latest_value' = LatestValueMean(rows)
            /\ latest_data' = LatestData(rows, p_data_type)
            /\ flood_risks' \in FloodRisks(rows, p_data_type)

-----------------------------------------------------------------------------
(* parse_usgs_data and the reading code applied to drawn payloads: SpecParse *)

\* most points in a drawn payload, over all its series
MaxPoints == 3

\* the sites of the drawn series: Potomac (UTC-5) and Mississippi (UTC-6)
SiteInfo ==
    << [siteCode |-> "01646500",
        siteName |-> "POTOMAC RIVER NEAR WASH, DC LITTLE FALLS PUMP STA.",
        latitude |-> << "3", "8", ".", "9", "5" >>,
        longitude |-> << "-", "7", "7", ".", "1", "3" >>,
        variableName |-> "Streamflow, ft3/s",
        unit |-> "ft3/s",
        utcoff |-> 0 - 5],
       [siteCode |-> "07374000",
        siteName |-> "Mississippi River at Baton Rouge, LA",
        latitude |-> << "3", "0", ".", "4", "5" >>,
        longitude |-> << "-", "9", "1", ".", "1", "9" >>,
        variableName |-> "Streamflow, ft3/s",
        unit |-> NoKey,
        utcoff |-> 0 - 6] >>

\* local clock hours of the points drawn out of order
Hours == {1, 2}

\* raw value strings: '-999999', '-999999.0', '8000.5', '15000.01', 'Ice'
SentinelPointZero == << "-", "9", "9", "9", "9", "9", "9", ".", "0" >>
Raw8000_5 == << "8", "0", "0", "0", ".", "5" >>
Raw15000_01 == << "1", "5", "0", "0", "0", ".", "0", "1" >>
RawIce == << "I", "c", "e" >>

\* A drawn point opens a series of site `opens` (0: it continues the series).
\* Points drawn for their values come in time order (local 0: the hour is the
\* point's position in the payload); points drawn for their times carry readings.
ValuePoints ==
    [opens : 0..Len(SiteInfo), local : {0},
     raw : {SentinelRaw, SentinelPointZero, Raw8000_5, RawIce}]
TimePoints ==
    [opens : 0..Len(SiteInfo), local : Hours, raw : {Raw8000_5, Raw15000_01}]

MakeSeries(site) ==
    [siteCode |-> SiteInfo[site].siteCode,
     siteName |-> SiteInfo[site].siteName,
     latitude |-> SiteInfo[site].latitude,
     longitude |-> SiteInfo[site].longitude,
     variableName |-> SiteInfo[site].variableName,
     unit |-> SiteInfo[site].unit,
     utcoff |-> SiteInfo[site].utcoff,
     values |-> << >>]

RECURSIVE MakeTimeSeries(_, _, _)
MakeTimeSeries(choices, built, pos) ==
    IF choices = << >> THEN built
    ELSE LET c == Head(choices)
             open == IF c.opens = 0 THEN built
                     ELSE Append(built, MakeSeries(c.opens))
             n == Len(open)
             point == [value |-> c.raw,
                       dateTime |-> [local |-> IF c.local = 0 THEN pos
                                               ELSE c.local,
                                     utcoff |-> open[n].utcoff,
                                     wellformed |-> TRUE]]
         IN  MakeTimeSeries(Tail(choices),
                 [open EXCEPT ![n].values = Append(@, point)], pos + 1)

\* the source emits the points of one series in time order
InTimeOrder(f) ==
    \A i \in 2..Len(f) : f[i].opens = 0 => f[i - 1].local <= f[i].local

Draws(points) ==
    UNION {{f \in [1..n -> points] : (n > 0 => f[1].opens # 0) /\ InTimeOrder(f)} :
              n \in 0..MaxPoints}

DrawnPayloads ==
    {[hasTimeSeries |-> TRUE, timeSeries |-> MakeTimeSeries(c, << >>, 1)] :
        c \in Draws(ValuePoints) \cup Draws(TimePoints)}

InitParse ==
    /\ IdleRender /\ IdleConsume /\ IdleParams /\ IdleClassify
    /\ data_type = "Streamflow"
    /\ request = NoRequest
    /\ pc = "parse"
    /\ payload \in DrawnPayloads
    /\ parsed = NoParse

\* line 57: parse_usgs_data(data)
Parse ==
    /\ pc = "parse"
    /\ parsed' = parse_usgs_data(payload)
    /\ pc' = "parsed"
    /\ UNCHANGED << renderVars, consumeVars, paramVars, classifyVars, request,
                    data_type, payload >>

\* lines 167-341 on the DataFrame a parse returned
Read ==
    /\ pc = "parsed"
    /\ parsed.status = "ok"
    /\ Consume(parsed.records, data_type, {})
    /\ pc' = "read"
    /\ UNCHANGED << cache, now, time_period, button, called, fetched,
                    lastFetch, clearedSince, afterClear, parseVars, paramVars,
                    classifyVars, request, data_type >>

NextParse == Parse \/ Read

SpecParse == InitParse /\ [][NextParse]_vars

-----------------------------------------------------------------------------
(* The fetch methods and get_flood_data, lines 36-85 and 120-126 *)

\* the exceptions `except requests.exceptions.RequestException` catches
RequestExceptions == {"ConnectionError", "Timeout", "HTTPError"}

\* requests.get, raise_for_status and response.json(), lines 54-56: the decoded
\* body, or the exception raised
HttpGet(response) ==
    IF response.kind \in {"ConnectionError", "Timeout"}
    THEN [status |-> response.kind, data |-> EmptyPayload]
    ELSE IF response.status_code >= 400 /\ response.status_code < 600
    THEN [status |-> "HTTPError", data |-> EmptyPayload]
    ELSE [status |-> "ok", data |-> response.json]

\* lines 56-57: the body is parsed if the request went through
Parsed(got) ==
    IF got.status = "ok" THEN parse_usgs_data(got.data)
    ELSE [status |-> got.status, records |-> << >>]

\* lines 53-60 and 78-85: status "ok" is a return, any other an exception that
\* leaves the method
Caught(done, error) ==
    IF done.status = "ok"
    THEN [status |-> "ok", value |-> done.records, shown |-> {}, failed |-> FALSE]
    ELSE IF done.status \in RequestExceptions
    THEN [status |-> "ok", value |-> << >>, shown |-> {error}, failed |-> TRUE]
    ELSE [status |-> done.status, value |-> << >>, shown |-> {}, failed |-> TRUE]

TryFetch(response, error) == Caught(Parsed(HttpGet(response)), error)

fetch_streamflow_data(p_site_codes, p_states, p_period, response) ==
    TryFetch(response, "error: Error fetching streamflow data")

fetch_gage_height_data(p_site_codes, p_states, p_period, response) ==
    TryFetch(response, "error: Error fetching gage height data")

\* lines 121-126, without the cache
get_flood_data(p_data_type, p_period, response) ==
    IF p_data_type = "Streamflow"
    THEN fetch_streamflow_data(None, None, p_period, response)
    ELSE fetch_gage_height_data(None, None, p_period, response)

\* the request the call of lines 121-126 sends
RequestOf(p_data_type, p_period) ==
    BuildRequest(IF p_data_type = "Streamflow" THEN "fetch_streamflow_data"
                 ELSE "fetch_gage_height_data", None, None, p_period)

-----------------------------------------------------------------------------
(* st.cache_data(ttl=300), line 120 *)

TTL == 300

\* the key of a call: the arguments of get_flood_data
CacheKey(p_data_type, p_period) == << p_data_type, p_period >>

\* Fresh with half the ttl
FreshHalfTtl(store, key, t) ==
    key \in DOMAIN store /\ t - store[key].created < TTL \div 2

\* an entry is served while its age is below the ttl
Fresh(store, key, t) == key \in DOMAIN store /\ t - store[key].created < TTL

\* a clear that leaves the entries in place
ClearNothing(store) == store

\* st.cache_data.clear(), line 153
Clear(store) == Empty

\* entries past the ttl are dropped
Expire(store, t) == [k \in {j \in DOMAIN store : Fresh(store, j, t)} |-> store[k]]

\* the store after a call that ran the function: a returned value is stored, an
\* exception is not
Store(store, key, result, t) ==
    IF result.status = "ok"
    THEN [k \in DOMAIN store \cup {key} |->
             IF k = key
             THEN [value |-> result.value, shown |-> result.shown, created |-> t]
             ELSE store[k]]
    ELSE store

-----------------------------------------------------------------------------
(* One pass of the script, lines 128-353: Spec *)

\* ticks of the clock the model runs for
MaxTicks == 2

\* the clock advances by half the ttl
TickLen == TTL \div 2

TimePeriods == {"Last 24 Hours", "Last 3 Days", "Last Week", "Last 30 Days"}

\* lines 158-163
period_code(label) ==
    CASE label = "Last 24 Hours" -> "P1D"
      [] label = "Last 3 Days" -> "P3D"
      [] label = "Last Week" -> "P7D"
      [] label = "Last 30 Days" -> "P30D"

\* the widget settings the user moves between in the model
Picks == {<< "Streamflow", "Last 24 Hours" >>, << "Gage Height", "Last Week" >>}

GoodPayload ==
    [hasTimeSeries |-> TRUE,
     timeSeries |-> MakeTimeSeries(
         << [opens |-> 1, local |-> 1, raw |-> Raw8000_5],
            [opens |-> 0, local |-> 2, raw |-> Raw15000_01] >>, << >>, 1)]

IcePayload ==
    [hasTimeSeries |-> TRUE,
     timeSeries |-> MakeTimeSeries(
         << [opens |-> 1, local |-> 1, raw |-> Raw8000_5],
            [opens |-> 0, local |-> 2, raw |-> RawIce] >>, << >>, 1)]

NoNamePayload ==
    [hasTimeSeries |-> TRUE,
     timeSeries |-> << [MakeSeries(1) EXCEPT !.siteName = NoKey] >>]

\* what the network and the USGS service can answer
Responses ==
    { [kind |-> "ConnectionError", status_code |-> 0, json |-> EmptyPayload],
      [kind |-> "Timeout", status_code |-> 0, json |-> EmptyPayload],
      [kind |-> "response", status_code |-> 500, json |-> EmptyPayload],
      [kind |-> "response", status_code |-> 200, json |-> EmptyPayload],
      [kind |-> "response", status_code |-> 200,
       json |-> [hasTimeSeries |-> FALSE, timeSeries |-> << >>]],
      [kind |-> "response", status_code |-> 200, json |-> GoodPayload],
      [kind |-> "response", status_code |-> 200, json |-> IcePayload],
      [kind |-> "response", status_code |-> 200, json |-> NoNamePayload] }

Init ==
    /\ IdleRender /\ IdleConsume /\ IdleParse /\ IdleParams /\ IdleClassify
    /\ data_type = "Streamflow"
    /\ request = NoRequest
    /\ pc = "script"

\* what the last fetch for a key is remembered as
Seen(result, t) ==
    [status |-> IF result.status # "ok" THEN "raised"
                ELSE IF result.failed THEN "failed" ELSE "returned",
     value |-> result.value,
     at |-> t]

\* the cached get_flood_data of line 165: the entry if there is one, the
\* function's result if not
Call(store, key, p_data_type, p_period, response) ==
    IF Fresh(store, key, now)
    THEN [status |-> "ok", value |-> store[key].value,
          shown |-> store[key].shown, failed |-> FALSE, hit |-> TRUE]
    ELSE [hit |-> FALSE] @@ get_flood_data(p_data_type, p_period, response)

\* lines 167-341 after the call, and the uncaught exception otherwise
Render(result, p_data_type) ==
    IF result.status = "ok"
    THEN Consume(result.value, p_data_type, result.shown)
    ELSE /\ df' = << >>
         /\ outcome' = "exception"
         /\ messages' = {"uncaught: " \o result.status}
         /\ latest_value' = 0
         /\ latest_data' = << >>
         /\ flood_risks' = << >>

\* the pass from the call of line 165 on: what it leaves behind
Finish(p_data_type, label, clicked, key, store, before, cleared, result) ==
    /\ data_type' = p_data_type
    /\ time_period' = label
    /\ button' = clicked
    /\ called' = key
    /\ fetched' = ~result.hit
    /\ request' = IF result.hit THEN request
                  ELSE RequestOf(p_data_type, period_code(label))
    /\ cache' = IF result.hit THEN store ELSE Store(store, key, result, now)
    /\ lastFetch' =
           IF result.hit THEN before
           ELSE [k \in DOMAIN before \cup {key} |->
                    IF k = key THEN Seen(result, now) ELSE before[k]]
    /\ clearedSince' = [k \in DOMAIN cleared \ {key} |-> cleared[k]]
    /\ afterClear' = IF key \notin DOMAIN cleared THEN "no"
                     ELSE IF cleared[key] THEN "evicted" ELSE "empty"
    /\ Render(result, p_data_type)
    /\ UNCHANGED << now, pc, parseVars, paramVars, classifyVars >>

\* The script runs top to bottom with the widgets at (p_data_type, label) and
\* the button pressed or not (lines 152-153); the service answers `response`
\* if it is asked.
Pass(p_data_type, label, clicked, response) ==
    Finish(p_data_type, label, clicked,
           CacheKey(p_data_type, period_code(label)),
           IF clicked THEN Clear(cache) ELSE cache,
           IF clicked THEN Empty ELSE lastFetch,
           IF clicked THEN [k \in Keys |-> k \in DOMAIN cache] ELSE clearedSince,
           Call(IF clicked THEN Clear(cache) ELSE cache,
                CacheKey(p_data_type, period_code(label)),
                p_data_type, period_code(label), response))

\* a widget changed, or the script was rerun: no button press
Rerun ==
    \E w \in Picks, r \in Responses : Pass(w[1], w[2], FALSE, r)

\* lines 152-153: the Refresh Data button was pressed
Refresh ==
    \E w \in Picks, r \in Responses : Pass(w[1], w[2], TRUE, r)

\* time passes; the entries that reach the ttl leave the store
Tick ==
    /\ now + TickLen <= MaxTicks * TickLen
    /\ now' = now + TickLen
    /\ cache' = Expire(cache, now')
    /\ lastFetch' = [k \in {j \in DOMAIN lastFetch :
                                now' - lastFetch[j].at < TTL} |-> lastFetch[k]]
    /\ UNCHANGED << data_type, time_period, button, request, outcome,
                    messages, called, fetched, clearedSince, afterClear,
                    consumeVars, pc, parseVars, paramVars, classifyVars >>

Next == Rerun \/ Refresh \/ Tick

Spec == Init /\ [][Next]_vars

-----------------------------------------------------------------------------
(* Properties.  A step of a pass leaves the clock alone; Tick moves it. *)

SentinelValue == 0 - 999999 * Scale

\* C1: after a call whose fetch failed, the next call with the same key,
\* within the ttl and with no clear, issues a new HTTP fetch.
C1_FailureIsRetried ==
    [][(/\ now' = now
        /\ ~button'
        /\ called' \in DOMAIN lastFetch
        /\ lastFetch[called'].status \in {"failed", "raised"}
        /\ now - lastFetch[called'].at < TTL)
       => fetched']_vars

\* C2: a call whose key was fetched and returned less than the ttl ago, with no
\* clear since, issues no fetch and returns the collection stored then.
C2_OneFetchPerWindow ==
    [][(/\ now' = now
        /\ ~button'
        /\ called' \in DOMAIN lastFetch
        /\ lastFetch[called'].status \in {"returned", "failed"}
        /\ now - lastFetch[called'].at < TTL)
       => (/\ ~fetched'
           /\ df' = lastFetch[called'].value
           /\ lastFetch' = lastFetch)]_vars

\* C2 happens: a call served from an entry stored a tick earlier
C2_Witness ==
    /\ ~button /\ ~fetched
    /\ called \in DOMAIN lastFetch
    /\ lastFetch[called].status = "returned"
    /\ lastFetch[called].at < now
    /\ df # << >>
    /\ df = lastFetch[called].value

\* C3: the first call for any key after a clear issues a fetch, whatever the
\* clear evicted; a clear leaves no entry of any key.
C3_ClearThenFetch ==
    /\ afterClear # "no" => fetched
    /\ \A k \in DOMAIN clearedSince : k \notin DOMAIN cache

\* C3 happens: a key other than the one selected at the clear, whose young entry
\* the clear evicted, is called and fetched
C3_Witness ==
    /\ afterClear = "evicted" /\ ~button /\ fetched
    /\ now = 0

\* C4: no failure of the pipeline leaves get_flood_data uncaught; a failed fetch
\* ends in an empty collection and a visible message.
C4_NoUncaughtFailure ==
    /\ outcome # "exception"
    /\ (fetched /\ called \in DOMAIN lastFetch
            /\ lastFetch[called].status # "returned")
       => df = << >> /\ messages # {}

\* C5: no record parse_usgs_data emits has the sentinel -999999 as its value.
C5_NoSentinelRecord ==
    parsed.status = "ok" =>
        \A i \in 1..Len(parsed.records) : parsed.records[i].value # SentinelValue

\* the payload has every field, and every number in it converts
WellFormed(data) ==
    /\ data.hasTimeSeries
    /\ \A i \in 1..Len(data.timeSeries) :
          LET series == data.timeSeries[i] IN
          /\ series.siteName # NoKey
          /\ ParseFloat(series.latitude).ok
          /\ ParseFloat(series.longitude).ok
          /\ \A j \in 1..Len(series.values) :
                /\ series.values[j].value # NoKeySeq
                /\ series.values[j].dateTime.wellformed
                /\ ParseFloat(series.values[j].value).ok

\* the places << series, point >> of the pairs whose raw value is not '-999999'
KeptPlaces(data) ==
    {pl \in UNION {{<< i, j >> : j \in 1..Len(data.timeSeries[i].values)} :
                       i \in 1..Len(data.timeSeries)} :
        data.timeSeries[pl[1]].values[pl[2]].value # SentinelRaw}

AllPlaces(data) ==
    UNION {{<< i, j >> : j \in 1..Len(data.timeSeries[i].values)} :
              i \in 1..Len(data.timeSeries)}

\* the number of kept places before or at pl, in series order then point order
Rank(data, pl) ==
    Cardinality({q \in KeptPlaces(data) :
                    q[1] < pl[1] \/ (q[1] = pl[1] /\ q[2] <= pl[2])})

\* the record the pair at place pl stands for
RecordAt(data, pl) ==
    LET series == data.timeSeries[pl[1]]
        point == series.values[pl[2]]
    IN  [site_code |-> series.siteCode,
         site_name |-> series.siteName,
         latitude |-> ParseFloat(series.latitude).val,
         longitude |-> ParseFloat(series.longitude).val,
         parameter |-> series.variableName,
         unit |-> IF series.unit = NoKey THEN "N/A" ELSE series.unit,
         datetime |-> point.dateTime.local - point.dateTime.utcoff,
         value |-> ParseFloat(point.value).val]

\* C6: for a well-formed payload the records are the pairs whose raw value is not
\* '-999999', in series order then point order, each with its own series' site
\* code, name, latitude, longitude, parameter and unit; their count is the
\* number of pairs minus the number of sentinel pairs.
C6_RecordsAreKeptPairs ==
    (pc # "parse" /\ WellFormed(payload)) =>
        /\ parsed.status = "ok"
        /\ Len(parsed.records) = Cardinality(AllPlaces(payload))
               - Cardinality(AllPlaces(payload) \ KeptPlaces(payload))
        /\ \A pl \in KeptPlaces(payload) :
              parsed.records[Rank(payload, pl)] = RecordAt(payload, pl)

\* C6 happens: two series of different sites, a sentinel pair dropped, a pair of
\* each series kept
C6_Witness ==
    /\ pc # "parse" /\ WellFormed(payload)
    /\ Len(payload.timeSeries) = 2
    /\ AllPlaces(payload) # KeptPlaces(payload)
    /\ Len(parsed.records) = 2
    /\ parsed.records[1].site_code # parsed.records[2].site_code
    /\ parsed.records[1].unit # parsed.records[2].unit

\* C7: the risk level is the strict-threshold function of the data type and the
\* value (Streamflow 15000 and 8000, Gage Height 25 and 15), and the marker
\* colour keeps its own thresholds (Streamflow 10000 and 5000, Gage Height 20
\* and 10).
C7_RiskThresholds ==
    pc = "classified" =>
        /\ data_type = "Streamflow" =>
              /\ risk_level = "HIGH" <=> value > 15000 * Scale
              /\ risk_level = "MODERATE" <=>
                     (value > 8000 * Scale /\ value <= 15000 * Scale)
              /\ risk_level = "LOW" <=> value <= 8000 * Scale
              /\ color = "red" <=> value > 10000 * Scale
              /\ color = "orange" <=>
                     (value > 5000 * Scale /\ value <= 10000 * Scale)
              /\ color = "green" <=> value <= 5000 * Scale
        /\ data_type = "Gage Height" =>
              /\ risk_level = "HIGH" <=> value > 25 * Scale
              /\ risk_level = "MODERATE" <=>
                     (value > 15 * Scale /\ value <= 25 * Scale)
              /\ risk_level = "LOW" <=> value <= 15 * Scale
              /\ color = "red" <=> value > 20 * Scale
              /\ color = "orange" <=>
                     (value > 10 * Scale /\ value <= 20 * Scale)
              /\ color = "green" <=> value <= 10 * Scale

\* C7 happens: a value between the two tables' thresholds, red on the map and
\* MODERATE in the table
C7_Witness ==
    /\ pc = "classified" /\ data_type = "Streamflow"
    /\ value = 12000 * Scale
    /\ color = "red" /\ risk_level = "MODERATE"

\* C8 as stated: Streamflow 8000 is MODERATE, and a value just above 15000 is
\* HIGH.
C8_Boundary8000Moderate ==
    (pc = "classified" /\ data_type = "Streamflow") =>
        /\ value = 8000 * Scale => risk_level = "MODERATE"
        /\ value = 15000 * Scale + 1 => risk_level = "HIGH"

\* C8 amended: Streamflow 8000 is LOW, MODERATE begins just above 8000, 15000
\* is still MODERATE and a value just above 15000 is HIGH.
C8_Boundary8000Low ==
    (pc = "classified" /\ data_type = "Streamflow") =>
        /\ value = 8000 * Scale => risk_level = "LOW"
        /\ value = 8000 * Scale + 1 => risk_level = "MODERATE"
        /\ value = 15000 * Scale => risk_level = "MODERATE"
        /\ value = 15000 * Scale + 1 => risk_level = "HIGH"

\* C8 happens: Streamflow 8000 has been classified
C8_Witness ==
    /\ pc = "classified" /\ data_type = "Streamflow"
    /\ value = 8000 * Scale
    /\ risk_level = "LOW"

\* the parameters with parameterCd blanked
Masked(params) == [k \in DOMAIN params |-> IF k = "parameterCd" THEN "" ELSE params[k]]

\* C9: a request carries exactly one of sites and stateCd: the site codes if any
\* are given, else the state codes if any are given, else the default sites;
\* the two builders differ in parameterCd alone (00060, 00065).
C9_SitePrecedence ==
    pc = "built" =>
        LET params == request.params IN
        /\ DOMAIN params \in
               {{"format", "parameterCd", "period", "siteStatus", "sites"},
                {"format", "parameterCd", "period", "siteStatus", "stateCd"}}
        /\ params["format"] = "json"
        /\ params["period"] = period
        /\ params["siteStatus"] = "active"
        /\ params["parameterCd"] =
               IF fetcher = "fetch_streamflow_data" THEN "00060" ELSE "00065"
        /\ (site_codes # None /\ Len(site_codes) > 0) =>
               ("sites" \in DOMAIN params /\ params["sites"] = Join(site_codes))
        /\ (~(site_codes # None /\ Len(site_codes) > 0)
               /\ states # None /\ Len(states) > 0) =>
               ("stateCd" \in DOMAIN params /\ params["stateCd"] = Join(states))
        /\ (~(site_codes # None /\ Len(site_codes) > 0)
               /\ ~(states # None /\ Len(states) > 0)) =>
               ("sites" \in DOMAIN params
                   /\ params["sites"] = "01646500,02231000,07374000,08062500")
        /\ Masked(streamflow_params(site_codes, states, period))
               = Masked(gage_height_params(site_codes, states, period))

\* C9 happens: the gage height request built with site codes and state codes
\* both given
C9_Witness ==
    /\ pc = "built" /\ fetcher = "fetch_gage_height_data"
    /\ site_codes # None /\ Len(site_codes) = 2
    /\ states # None /\ Len(states) = 1
    /\ "sites" \in DOMAIN request.params
    /\ request.params["sites"] = "01646500,02231000"

\* the rows of site s with the greatest timestamp
NewestRows(rows, s) ==
    {rows[i] : i \in {j \in 1..Len(rows) :
        /\ rows[j].site_code = s
        /\ \A k \in 1..Len(rows) :
              rows[k].site_code = s => rows[k].datetime <= rows[j].datetime}}

\* the means of one newest value per site
NewestMeans(rows) ==
    {SumOver(f, DOMAIN f) \div Cardinality(DOMAIN f) :
        f \in {g \in [SiteCodes(rows) -> {rows[i].value : i \in 1..Len(rows)}] :
                  \A s \in SiteCodes(rows) :
                      \E r \in NewestRows(rows, s) : r.value = g[s]}}

\* C10: the overview average, the map marker and the risk table each take, for
\* every site, a record of that site with the greatest timestamp.
C10_LatestIsNewest ==
    outcome = "rendered" =>
        /\ latest_value \in NewestMeans(df)
        /\ \A s \in DOMAIN latest_data : latest_data[s].row \in NewestRows(df, s)
        /\ \A i \in 1..Len(flood_risks) :
              \E r \in NewestRows(df, flood_risks[i].site_code) :
                  /\ flood_risks[i].latest_value = r.value
                  /\ flood_risks[i].last_updated = r.datetime

====
